---- MODULE Spec2Model ----
(***************************************************************************)
(* chan-mcp: K-line retrieval from the BaoStock provider and Chan-theory   *)
(* (czsc) structure analysis exposed as three tools (bars, signals,        *)
(* structure).  The model follows the modular code path                    *)
(*   tools/market_tools.py -> datasource/baostock_client.py                *)
(*                         -> analysis/czsc_analysis.py.                   *)
(*                                                                         *)
(* Representation choices                                                  *)
(*  - a Python str that the code inspects character by character (freq)    *)
(*    is a sequence of one-character strings: "5m" is <<"5","m">>;         *)
(*  - the engine's Chinese direction labels are written in pinyin because  *)
(*    the module is ASCII: "xiangshang" is the label 向上 (up) and          *)
(*    "xiangxia" is 向下 (down);                                            *)
(*  - a provider row is reduced to the text its timestamp is built from    *)
(*    (the date column, or date + " " + time for minute data): 0 is a text *)
(*    pandas cannot parse, n > 0 is a text that parses to instant n;       *)
(*  - an attribute of an engine object is Absent, NoneV (present and       *)
(*    None) or Num(n).                                                     *)
(***************************************************************************)
EXTENDS Integers, Sequences, FiniteSets, TLC

VARIABLES
    pc,           \* position of the invocation in the handler
    tool,         \* "bars" | "signals" | "structure"
    freq,         \* the freq argument (sequence of characters)
    level,        \* the level argument of structure
    czsc,         \* TRUE iff the czsc import at module load succeeded
    bo_freq,      \* provider frequency code computed by map_freq_to_baostock
    calls,        \* provider session calls issued so far, in order
    lg,           \* outcome of bs.login():  "none" | "ok" | "fail" | "exc"
    lo,           \* outcome of bs.logout(): "none" | "ok" | "exc"
    prov,         \* what the provider's row iterator holds for the query
    fetched,      \* outcome of fetch_bars_df
    payload,      \* return value of get_bars_local
    engineCalls,  \* calls made into the czsc engine, in order
    sigOut,       \* outcome of the two signal functions
    bi_list,      \* strokes the engine detected
    zs_list,      \* centers the engine detected
    result        \* outcome of the tool invocation

vars == <<pc, tool, freq, level, czsc, bo_freq, calls, lg, lo, prov,
          fetched, payload, engineCalls, sigOut, bi_list, zs_list, result>>

----------------------------------------------------------------------------
(* Bounds *)

MaxRows == 3      \* rows in a provider result set
MaxDate == 2      \* distinct parseable timestamps
MaxFreqLen == 2   \* length of the arbitrary freq strings tried
MaxBi == 3        \* strokes in a stroke list given to analyze_structure
MaxPrice == 2     \* stroke extremes range over 1..MaxPrice
MaxPricedRows == 1 \* rows in a result set whose price cells vary
MaxBiMissing == 2 \* strokes in a stroke list whose extremes may be missing

----------------------------------------------------------------------------
(* Strings as character sequences *)

RECURSIVE SeqsUpTo(_, _)
SeqsUpTo(S, n) ==
    IF n = 0 THEN {<<>>}
    ELSE LET shorter == SeqsUpTo(S, n - 1)
         IN  shorter \cup {Append(s, c) : s \in {t \in shorter : Len(t) = n - 1}, c \in S}

Digits == {"0", "1", "3", "5", "6"}

LowerChar(c) ==
    CASE c = "A" -> "a"
      [] c = "D" -> "d"
      [] c = "M" -> "m"
      [] c = "W" -> "w"
      [] c = "Y" -> "y"
      [] OTHER -> c

\* str.lower()
Lower(s) == [i \in 1..Len(s) |-> LowerChar(s[i])]

\* str.isdigit(): non-empty and every character a digit
IsDigit(s) == Len(s) > 0 /\ \A i \in 1..Len(s) : s[i] \in Digits

\* s.endswith("m")
EndsWithM(s) == Len(s) > 0 /\ s[Len(s)] = "m"

\* s[:-1]
DropLast(s) == IF Len(s) = 0 THEN <<>> ELSE SubSeq(s, 1, Len(s) - 1)

\* the mapping dict of map_freq_to_baostock
mapping ==
    (<<"5", "m">> :> <<"5">>) @@
    (<<"1", "5", "m">> :> <<"1", "5">>) @@
    (<<"3", "0", "m">> :> <<"3", "0">>) @@
    (<<"6", "0", "m">> :> <<"6", "0">>) @@
    (<<"d">> :> <<"d">>) @@
    (<<"w">> :> <<"w">>) @@
    (<<"m">> :> <<"m">>) @@
    (<<"d", "a", "y">> :> <<"d">>) @@
    (<<"d", "a", "i", "l", "y">> :> <<"d">>)

MinuteLabels == {<<"5", "m">>, <<"1", "5", "m">>, <<"3", "0", "m">>, <<"6", "0", "m">>}

ProviderCodes == {<<"5">>, <<"1", "5">>, <<"3", "0">>, <<"6", "0">>, <<"d">>, <<"w">>, <<"m">>}

Raised(e) == [ok |-> FALSE, code |-> <<>>, err |-> e]
Returned(c) == [ok |-> TRUE, code |-> c, err |-> "none"]

\* a mapping that stops after the minute-label branch: bare provider codes
\* fall through to the ValueError
map_freq_strict(f0) ==
    LET f == Lower(f0)
    IN  IF f \in DOMAIN mapping THEN Returned(mapping[f])
        ELSE IF EndsWithM(f) /\ IsDigit(DropLast(f)) /\ f \in MinuteLabels
             THEN Returned(DropLast(f))
        ELSE Raised("ValueError")

map_freq_to_baostock(f0) ==
    LET f == Lower(f0)
    IN  IF f \in DOMAIN mapping THEN Returned(mapping[f])
        ELSE IF EndsWithM(f) /\ IsDigit(DropLast(f)) /\ f \in MinuteLabels
             THEN Returned(DropLast(f))
        ELSE IF f \in ProviderCodes THEN Returned(f)
        ELSE Raised("ValueError")

----------------------------------------------------------------------------
(* Bar normalizer *)

NaT == 0 - 1

\* pd.to_datetime(text, errors="coerce")
ToDatetime(c) == IF c = 0 THEN NaT ELSE c

\* Timestamp.to_pydatetime().isoformat()
IsoFormat(d) == <<"iso", d>>

\* order of two isoformat strings
IsoLeq(a, b) == a[2] <= b[2]

RECURSIVE DropNa(_)
DropNa(rows) ==
    IF rows = <<>> THEN <<>>
    ELSE IF Head(rows).datetime = NaT THEN DropNa(Tail(rows))
    ELSE <<Head(rows)>> \o DropNa(Tail(rows))

RECURSIVE InsertByDatetime(_, _)
InsertByDatetime(r, sorted) ==
    IF sorted = <<>> THEN <<r>>
    ELSE IF r.datetime < Head(sorted).datetime THEN <<r>> \o sorted
    ELSE <<Head(sorted)>> \o InsertByDatetime(r, Tail(sorted))

\* DataFrame.sort_values("datetime")
RECURSIVE SortValues(_)
SortValues(rows) ==
    IF rows = <<>> THEN <<>>
    ELSE InsertByDatetime(rows[Len(rows)], SortValues(SubSeq(rows, 1, Len(rows) - 1)))

PriceCols == {"open", "high", "low", "close"}

\* a price cell of a provider row: a numeric string, a non-numeric string or
\* the empty string
NumCell(n) == [kind |-> "num", v |-> n]
TextCell == [kind |-> "text", v |-> 0]
EmptyCell == [kind |-> "empty", v |-> 0]

\* a float: a finite number or not-a-number
Float(n) == [f |-> "num", v |-> n]
NaN == [f |-> "nan", v |-> 0]

\* pd.to_numeric(cell, errors="coerce")
to_numeric(cell) == IF cell.kind = "num" THEN Float(cell.v) ELSE NaN

\* float(x) of a numpy float64: the same number, nan stays nan
PyFloat(x) == IF x.f = "nan" THEN NaN ELSE Float(x.v)

\* lines 87-109 for one row: numeric coercion and the datetime column
Coerce(row) ==
    [datetime |-> ToDatetime(row.stamp),
     open |-> to_numeric(row.prices["open"]),
     high |-> to_numeric(row.prices["high"]),
     low |-> to_numeric(row.prices["low"]),
     close |-> to_numeric(row.prices["close"])]

\* the frame fetch_bars_df ends with, without the final sort
NormalizeUnsorted(data_list) ==
    IF data_list = <<>> THEN <<>>
    ELSE DropNa([i \in 1..Len(data_list) |-> Coerce(data_list[i])])

\* the part of fetch_bars_df after the rows are drained
Normalize(data_list) ==
    IF data_list = <<>> THEN <<>>
    ELSE SortValues(DropNa([i \in 1..Len(data_list) |-> Coerce(data_list[i])]))

to_rawbars(df) ==
    [i \in 1..Len(df) |->
        [dt |-> IsoFormat(df[i].datetime),
         open |-> PyFloat(df[i].open),
         close |-> PyFloat(df[i].close),
         high |-> PyFloat(df[i].high),
         low |-> PyFloat(df[i].low)]]

----------------------------------------------------------------------------
(* Values of the model *)

NoFetch == [kind |-> "none", err |-> "none", df |-> <<>>]
NoPayload == [kind |-> "none", count |-> 0, bars |-> <<>>]
NoResp == [none |-> TRUE]
NoResult == [kind |-> "none", err |-> "none", resp |-> NoResp]
NoProv == [rows |-> <<>>, delivered |-> 0]
NoSig == [fx |-> "none", power |-> "none"]

Raise(e) == [kind |-> "raise", err |-> e, resp |-> NoResp]
Return(r) == [kind |-> "return", err |-> "none", resp |-> r]

\* Python None as a returned value
Null == [null |-> TRUE]

\* the Literal type of the tools' freq parameter, sampled, plus a label outside it
ToolFreqs == {<<"d">>, <<"5", "m">>, <<"x", "y", "z">>}

\* price cells that are all numeric strings
NumericPrices == [c \in PriceCols |-> NumCell(1)]

Rows == [stamp : 0..MaxDate, prices : {NumericPrices}]

\* a result set: the rows the provider has, and how many of them the iterator
\* delivers before rs.next() returns False (all of them, or fewer when the
\* provider's status turns non-success while paging)
ProviderResults ==
    UNION {{[rows |-> r, delivered |-> k] : k \in 0..Len(r)} : r \in SeqsUpTo(Rows, MaxRows)}

\* the while loop of fetch_bars_df: rows are appended while the status is "0"
\* and rs.next() is true
Drain(p) == SubSeq(p.rows, 1, p.delivered)

RawSymbol == "SH_600000"
NormSymbol == "sh.600000"

----------------------------------------------------------------------------
(* Structure analyzer *)

Absent == [tag |-> "absent", v |-> 0]
NoneV == [tag |-> "none", v |-> 0]
Num(n) == [tag |-> "num", v |-> n]

UpLabels == {"up", "xiangshang"}
DownLabels == {"down", "xiangxia"}
Recognized == UpLabels \cup DownLabels
Labels == Recognized \cup {"other"}

\* float(getattr(b, a, 0)): a missing attribute reads as 0, None makes float raise
FloatAttr(b, a) ==
    IF b[a].tag = "absent" THEN [ok |-> TRUE, v |-> 0]
    ELSE IF b[a].tag = "none" THEN [ok |-> FALSE, v |-> 0]
    ELSE [ok |-> TRUE, v |-> b[a].v]

Abs(x) == IF x < 0 THEN 0 - x ELSE x

\* serialize_dt
serialize_dt(t) == IsoFormat(t)

\* same_dir = [b for b in bi_list if b.direction in {...}]
RECURSIVE SameDir(_)
SameDir(bl) ==
    IF bl = <<>> THEN <<>>
    ELSE IF Head(bl).direction \in Recognized THEN <<Head(bl)>> \o SameDir(Tail(bl))
    ELSE SameDir(Tail(bl))

\* the loop over reversed(same_dir) after last is bound: index of the first
\* stroke at or below position i whose direction label equals last's, 0 if none
RECURSIVE ScanPrev(_, _, _)
ScanPrev(sd, i, lastDir) ==
    IF i = 0 THEN 0
    ELSE IF sd[i].direction = lastDir THEN i
    ELSE ScanPrev(sd, i - 1, lastDir)

\* lines 118-134: the classification of a (last, prev) pair
Classify(last, prev) ==
    LET lh == FloatAttr(last, "high")
        ll == FloatAttr(last, "low")
        ph == FloatAttr(prev, "high")
        pl == FloatAttr(prev, "low")
    IN  IF ~(lh.ok /\ ll.ok /\ ph.ok /\ pl.ok) THEN Null
        ELSE LET last_len == Abs(lh.v - ll.v)
                 prev_len == Abs(ph.v - pl.v)
                 direction == last.direction
                 bearish == direction \in UpLabels /\ lh.v <= ph.v /\ last_len < prev_len
                 bullish == direction \in DownLabels /\ ll.v >= pl.v /\ last_len < prev_len
             IN  IF bearish \/ bullish
                 THEN [type |-> IF bearish THEN "bearish" ELSE "bullish",
                       last_start |-> serialize_dt(last.start_dt),
                       last_end |-> serialize_dt(last.end_dt),
                       prev_start |-> serialize_dt(prev.start_dt),
                       prev_end |-> serialize_dt(prev.end_dt)]
                 ELSE Null

\* lines 109-134
Beichi(bl) ==
    LET same_dir == SameDir(bl)
        n == Len(same_dir)
    IN  IF n = 0 THEN Null
        ELSE LET last == same_dir[n]
                 p == ScanPrev(same_dir, n - 1, last.direction)
             IN  IF p = 0 THEN Null ELSE Classify(last, same_dir[p])

BiAttrs == {"direction", "high", "low", "start_dt", "end_dt"}

\* getattr(bi, attr, None) is not None
Present(b, a) ==
    IF a \in {"high", "low"} THEN b[a].tag = "num" ELSE TRUE

\* lines 81-107: the item emitted for one stroke
BiItem(b) ==
    [a \in {x \in BiAttrs : Present(b, x)} |->
        IF a \in {"start_dt", "end_dt"} THEN serialize_dt(b[a])
        ELSE IF a \in {"high", "low"} THEN b[a].v
        ELSE b[a]]

\* lines 137-153: the item emitted for one center
ZsItem(z) == z

analyze_structure(bl, zl, lv) ==
    IF lv = "bi"
    THEN [items |-> [i \in 1..Len(bl) |-> BiItem(bl[i])], beichi |-> Beichi(bl)]
    ELSE [items |-> [i \in 1..Len(zl) |-> ZsItem(zl[i])], beichi |-> Null]

\* strokes as the engine delivers them: consecutive in time
StrokeShapes(vals) == [direction : Labels, high : vals, low : vals]

Stamp(shapes) ==
    [i \in 1..Len(shapes) |->
        [direction |-> shapes[i].direction, high |-> shapes[i].high, low |-> shapes[i].low,
         start_dt |-> i, end_dt |-> i + 1]]

Prices == {Num(n) : n \in 1..MaxPrice}

BiLists(n) == {Stamp(s) : s \in SeqsUpTo(StrokeShapes(Prices), n)}

ZsLists == {<<>>, <<[zd |-> 1, zg |-> 2]>>}

----------------------------------------------------------------------------
(* Signal extractor *)

FxName == "cxt_fxs_fx_is_inside_b1"
PowerName == "bar_zdt_power_V230313"

\* both signals inside one try block: a failure of the first skips the second
chan_basic_signals_one_try(fx, pw) ==
    IF fx = "exc" THEN [calls |-> <<FxName>>, signals |-> <<>>]
    ELSE [calls |-> <<FxName, PowerName>>,
          signals |-> IF pw = "ok"
                      THEN <<[name |-> FxName, value |-> "fx_sig"],
                             [name |-> PowerName, value |-> "power_sig"]>>
                      ELSE <<[name |-> FxName, value |-> "fx_sig"]>>]

\* lines 52-67, for the outcomes fx and pw of the two engine functions
chan_basic_signals(fx, pw) ==
    LET s1 == IF fx = "ok" THEN <<[name |-> FxName, value |-> "fx_sig"]>> ELSE <<>>
        s2 == IF pw = "ok" THEN Append(s1, [name |-> PowerName, value |-> "power_sig"]) ELSE s1
    IN  [calls |-> <<FxName, PowerName>>, signals |-> s2]

----------------------------------------------------------------------------
(* The tool invocation *)

Tools == {"bars", "signals", "structure"}
Levels == {"bi", "zs"}

Blank ==
    /\ tool = "bars"
    /\ freq = <<>>
    /\ level = "bi"
    /\ bo_freq = <<>>
    /\ calls = <<>>
    /\ lg = "none"
    /\ lo = "none"
    /\ prov = NoProv
    /\ fetched = NoFetch
    /\ payload = NoPayload
    /\ engineCalls = <<>>
    /\ sigOut = NoSig
    /\ bi_list = <<>>
    /\ zs_list = <<>>
    /\ result = NoResult

Init ==
    /\ pc = "idle"
    /\ czsc \in BOOLEAN
    /\ Blank

\* a tool is called with its arguments
Invoke ==
    /\ pc = "idle"
    /\ \E t \in Tools, f \in ToolFreqs :
          /\ tool' = t
          /\ freq' = f
          /\ \E lv \in (IF t = "structure" THEN Levels ELSE {"bi"}) : level' = lv
    /\ pc' = "map"
    /\ UNCHANGED <<czsc, bo_freq, calls, lg, lo, prov, fetched, payload,
                   engineCalls, sigOut, bi_list, zs_list, result>>

\* get_bars_local up to the login
MapFreq ==
    /\ pc = "map"
    /\ LET r == map_freq_to_baostock(freq)
       IN  IF r.ok
           THEN bo_freq' = r.code /\ pc' = "login" /\ UNCHANGED result
           ELSE result' = Raise(r.err) /\ pc' = "done" /\ UNCHANGED bo_freq
    /\ UNCHANGED <<tool, freq, level, czsc, calls, lg, lo, prov, fetched, payload,
                   engineCalls, sigOut, bi_list, zs_list>>

\* a login that is attempted again when the provider reports non-success
LoginRetry ==
    /\ pc = "login"
    /\ Len(calls) < 2
    /\ \E o \in {"ok", "fail", "exc"} :
          /\ lg' = o
          /\ calls' = Append(calls, "login")
          /\ IF o = "ok" THEN pc' = "query" /\ UNCHANGED result
             ELSE IF o = "fail" /\ Len(calls) = 0 THEN pc' = "login" /\ UNCHANGED result
             ELSE IF o = "fail" THEN pc' = "done" /\ result' = Raise("LoginFailed")
             ELSE pc' = "done" /\ result' = Raise("ProviderError")
    /\ UNCHANGED <<tool, freq, level, czsc, bo_freq, lo, prov, fetched, payload,
                   engineCalls, sigOut, bi_list, zs_list>>

\* baostock_login(), called before the try block
Login ==
    /\ pc = "login"
    /\ \E o \in {"ok", "fail", "exc"} :
          /\ lg' = o
          /\ calls' = Append(calls, "login")
          /\ IF o = "ok" THEN pc' = "query" /\ UNCHANGED result
             ELSE IF o = "fail" THEN pc' = "done" /\ result' = Raise("LoginFailed")
             ELSE pc' = "done" /\ result' = Raise("ProviderError")
    /\ UNCHANGED <<tool, freq, level, czsc, bo_freq, lo, prov, fetched, payload,
                   engineCalls, sigOut, bi_list, zs_list>>

\* the outcomes of fetch_bars_df: the query raises, the query reports a
\* non-"0" status, or rows are drained and normalized
FetchOutcome(f, p) ==
    /\ f \in {"exc", "status", "rows"}
    /\ p \in (IF f = "rows" THEN ProviderResults ELSE {NoProv})
    /\ prov' = p
    /\ fetched' = IF f = "exc" THEN [kind |-> "raise", err |-> "ProviderError", df |-> <<>>]
                  ELSE IF f = "status" THEN [kind |-> "raise", err |-> "QueryFailed", df |-> <<>>]
                  ELSE [kind |-> "df", err |-> "none", df |-> Normalize(Drain(p))]

\* the fetch without try/finally: an exception leaves the handler at once
FetchNoFinally ==
    /\ pc = "query"
    /\ calls' = Append(calls, "query")
    /\ \E f \in {"exc", "status", "rows"} :
          \E p \in (IF f = "rows" THEN ProviderResults ELSE {NoProv}) :
             /\ FetchOutcome(f, p)
             /\ IF f = "rows" THEN pc' = "logout" /\ UNCHANGED result
                ELSE pc' = "done"
                     /\ result' = Raise(IF f = "exc" THEN "ProviderError" ELSE "QueryFailed")
    /\ UNCHANGED <<tool, freq, level, czsc, bo_freq, lg, lo, payload,
                   engineCalls, sigOut, bi_list, zs_list>>

\* try: df = fetch_bars_df(...); control reaches the finally clause either way
Fetch ==
    /\ pc = "query"
    /\ calls' = Append(calls, "query")
    /\ \E f \in {"exc", "status", "rows"} :
          \E p \in (IF f = "rows" THEN ProviderResults ELSE {NoProv}) :
             FetchOutcome(f, p)
    /\ pc' = "logout"
    /\ UNCHANGED <<tool, freq, level, czsc, bo_freq, lg, lo, payload,
                   engineCalls, sigOut, bi_list, zs_list, result>>

\* a logout that lets the provider's exception through
baostock_logout_unguarded(o) == IF o = "exc" THEN "raised" ELSE "returned"

\* baostock_logout(): try: bs.logout() except Exception: pass
baostock_logout(o) == IF o = "exc" THEN "returned" ELSE "returned"

\* finally: baostock_logout(); then the pending exception, if any, continues
Logout ==
    /\ pc = "logout"
    /\ calls' = Append(calls, "logout")
    /\ \E o \in {"ok", "exc"} :
          /\ lo' = o
          /\ IF baostock_logout(o) = "raised"
             THEN pc' = "done" /\ result' = Raise("LogoutError")
             ELSE IF fetched.kind = "raise"
             THEN pc' = "done" /\ result' = Raise(fetched.err)
             ELSE pc' = "rawbars" /\ UNCHANGED result
    /\ UNCHANGED <<tool, freq, level, czsc, bo_freq, lg, prov, fetched, payload,
                   engineCalls, sigOut, bi_list, zs_list>>

\* bars = to_rawbars(df, s) and the return of get_bars_local
ToRawbars ==
    /\ pc = "rawbars"
    /\ LET bars == to_rawbars(fetched.df)
       IN  /\ payload' = [kind |-> "return", count |-> Len(bars), bars |-> bars]
           /\ IF tool = "bars"
              THEN /\ pc' = "done"
                   /\ result' = Return([symbol |-> NormSymbol, freq |-> freq,
                                        start_date |-> "", end_date |-> "",
                                        count |-> Len(bars), bars |-> bars])
              ELSE pc' = tool /\ UNCHANGED result
    /\ UNCHANGED <<tool, freq, level, czsc, bo_freq, calls, lg, lo, prov, fetched,
                   engineCalls, sigOut, bi_list, zs_list>>

\* a signals handler that refuses to start without the engine, before looking
\* at the bars
ChanSignalsEngineFirst ==
    /\ pc = "signals"
    /\ pc' = "done"
    /\ IF ~czsc
       THEN result' = Raise("CzscMissing") /\ UNCHANGED <<engineCalls, sigOut>>
       ELSE IF payload.bars = <<>>
       THEN /\ result' = Return([symbol |-> RawSymbol, freq |-> freq,
                                 signals |-> <<>>, count |-> 0])
            /\ UNCHANGED <<engineCalls, sigOut>>
       ELSE \E fx \in {"ok", "exc"}, pw \in {"ok", "exc"} :
               LET r == chan_basic_signals(fx, pw)
               IN  /\ sigOut' = [fx |-> fx, power |-> pw]
                   /\ engineCalls' = r.calls
                   /\ result' = Return([symbol |-> NormSymbol, freq |-> freq,
                                        count |-> Len(payload.bars),
                                        signals |-> r.signals])
    /\ UNCHANGED <<tool, freq, level, czsc, bo_freq, calls, lg, lo, prov, fetched,
                   payload, bi_list, zs_list>>

\* chan_signals_local after get_bars_local has returned
ChanSignalsLocal ==
    /\ pc = "signals"
    /\ pc' = "done"
    /\ IF payload.bars = <<>>
       THEN /\ result' = Return([symbol |-> RawSymbol, freq |-> freq,
                                 signals |-> <<>>, count |-> 0])
            /\ UNCHANGED <<engineCalls, sigOut>>
       ELSE IF ~czsc
       THEN result' = Raise("CzscMissing") /\ UNCHANGED <<engineCalls, sigOut>>
       ELSE \E fx \in {"ok", "exc"}, pw \in {"ok", "exc"} :
               LET r == chan_basic_signals(fx, pw)
               IN  /\ sigOut' = [fx |-> fx, power |-> pw]
                   /\ engineCalls' = r.calls
                   /\ result' = Return([symbol |-> NormSymbol, freq |-> freq,
                                        count |-> Len(payload.bars),
                                        signals |-> r.signals])
    /\ UNCHANGED <<tool, freq, level, czsc, bo_freq, calls, lg, lo, prov, fetched,
                   payload, bi_list, zs_list>>

\* chan_structure_local after get_bars_local has returned, when the engine
\* detects the strokes bl and the centers zl
StructureWith(bl, zl) ==
    /\ pc = "structure"
    /\ pc' = "done"
    /\ IF payload.bars = <<>>
       THEN /\ result' = Return([symbol |-> RawSymbol, freq |-> freq, level |-> level,
                                 items |-> <<>>, beichi |-> Null])
            /\ UNCHANGED <<engineCalls, bi_list, zs_list>>
       ELSE IF ~czsc
       THEN result' = Raise("CzscMissing") /\ UNCHANGED <<engineCalls, bi_list, zs_list>>
       ELSE LET struct == analyze_structure(bl, zl, level)
            IN  /\ bi_list' = bl
                /\ zs_list' = zl
                /\ engineCalls' = <<"CZSC">>
                /\ result' = Return([symbol |-> NormSymbol, freq |-> freq, level |-> level,
                                     count |-> Len(payload.bars),
                                     items |-> struct.items, beichi |-> struct.beichi])
    /\ UNCHANGED <<tool, freq, level, czsc, bo_freq, calls, lg, lo, prov, fetched,
                   payload, sigOut>>

\* the collection analyze_structure reads for the requested level
EngineOutputs(BL) ==
    IF level = "bi" THEN {<<bl, <<>>>> : bl \in BL}
    ELSE {<<<<>>, zl>> : zl \in ZsLists}

\* stroke lists the engine detects inside a tool invocation, sampled: none, an
\* up-down-up list and a list of two down strokes in the other language
ToolBiLists ==
    {<<>>,
     Stamp(<<[direction |-> "up", high |-> Num(2), low |-> Num(1)],
             [direction |-> "down", high |-> Num(2), low |-> Num(1)],
             [direction |-> "up", high |-> Num(2), low |-> Num(2)]>>),
     Stamp(<<[direction |-> "xiangxia", high |-> Num(2), low |-> Num(1)],
             [direction |-> "xiangxia", high |-> Num(2), low |-> Num(2)]>>)}

ChanStructureLocal ==
    /\ pc = "structure"
    /\ \E e \in EngineOutputs(ToolBiLists) : StructureWith(e[1], e[2])

Next ==
    \/ Invoke
    \/ MapFreq
    \/ Login
    \/ Fetch
    \/ Logout
    \/ ToRawbars
    \/ ChanSignalsLocal
    \/ ChanStructureLocal

Spec == Init /\ [][Next]_vars

----------------------------------------------------------------------------
(* map_freq_to_baostock on arbitrary strings *)

FreqAlphabet == {"0", "1", "3", "5", "6", "m", "d", "w", "M", "D", "x"}

FreqInputs ==
    SeqsUpTo(FreqAlphabet, MaxFreqLen)
    \cup DOMAIN mapping
    \cup {<<"1", "5">>, <<"D", "A", "Y">>, <<"1", "5", "M">>, <<"x", "y", "z">>,
          <<"1", "0", "m">>, <<"1", "d">>}

InitFreq ==
    /\ pc = "map"
    /\ czsc = TRUE
    /\ tool = "bars"
    /\ freq \in FreqInputs
    /\ level = "bi"
    /\ bo_freq = <<>>
    /\ calls = <<>>
    /\ lg = "none"
    /\ lo = "none"
    /\ prov = NoProv
    /\ fetched = NoFetch
    /\ payload = NoPayload
    /\ engineCalls = <<>>
    /\ sigOut = NoSig
    /\ bi_list = <<>>
    /\ zs_list = <<>>
    /\ result = NoResult

SpecFreq == InitFreq /\ [][MapFreq]_vars

----------------------------------------------------------------------------
(* analyze_structure on arbitrary stroke lists *)

\* the handler has fetched one daily bar and is about to run the engine
InitBi ==
    /\ pc = "structure"
    /\ czsc = TRUE
    /\ tool = "structure"
    /\ freq = <<"d">>
    /\ level \in Levels
    /\ bo_freq = <<"d">>
    /\ calls = <<"login", "query", "logout">>
    /\ lg = "ok"
    /\ lo = "ok"
    /\ prov = [rows |-> <<[stamp |-> 1, prices |-> NumericPrices]>>, delivered |-> 1]
    /\ fetched = [kind |-> "df", err |-> "none", df |-> Normalize(Drain(prov))]
    /\ payload = [kind |-> "return", count |-> 1, bars |-> to_rawbars(fetched.df)]
    /\ engineCalls = <<>>
    /\ sigOut = NoSig
    /\ bi_list = <<>>
    /\ zs_list = <<>>
    /\ result = NoResult

AnalyzeStructure ==
    /\ pc = "structure"
    /\ \E e \in EngineOutputs(BiLists(MaxBi)) : StructureWith(e[1], e[2])

SpecBi == InitBi /\ [][AnalyzeStructure]_vars

----------------------------------------------------------------------------
(* get_bars_local on rows whose price cells are arbitrary strings *)

Cells == {NumCell(1), TextCell, EmptyCell}

PricedRows == [stamp : 0..MaxDate, prices : [PriceCols -> Cells]]

PricedResults(n) ==
    UNION {{[rows |-> r, delivered |-> k] : k \in 0..Len(r)} :
              r \in SeqsUpTo(PricedRows, n)}

\* the bars tool has logged in and is about to fetch
InitPrice ==
    /\ pc = "query"
    /\ czsc = TRUE
    /\ tool = "bars"
    /\ freq = <<"d">>
    /\ level = "bi"
    /\ bo_freq = <<"d">>
    /\ calls = <<"login">>
    /\ lg = "ok"
    /\ lo = "none"
    /\ prov = NoProv
    /\ fetched = NoFetch
    /\ payload = NoPayload
    /\ engineCalls = <<>>
    /\ sigOut = NoSig
    /\ bi_list = <<>>
    /\ zs_list = <<>>
    /\ result = NoResult

\* try: df = fetch_bars_df(...), when the query succeeds and yields rows
FetchPriced ==
    /\ pc = "query"
    /\ calls' = Append(calls, "query")
    /\ \E p \in PricedResults(MaxPricedRows) :
          /\ prov' = p
          /\ fetched' = [kind |-> "df", err |-> "none", df |-> Normalize(Drain(p))]
    /\ pc' = "logout"
    /\ UNCHANGED <<tool, freq, level, czsc, bo_freq, lg, lo, payload,
                   engineCalls, sigOut, bi_list, zs_list, result>>

NextPrice ==
    \/ FetchPriced
    \/ Logout
    \/ ToRawbars

SpecPrice == InitPrice /\ [][NextPrice]_vars

----------------------------------------------------------------------------
(* analyze_structure on strokes whose extremes may be missing *)

\* a stroke attribute as the engine object holds it: absent, None or a number
Extremes == {Absent, NoneV} \cup Prices

BiListsMissing(n) == {Stamp(sh) : sh \in SeqsUpTo(StrokeShapes(Extremes), n)}

AnalyzeMissing ==
    /\ pc = "structure"
    /\ \E e \in EngineOutputs(BiListsMissing(MaxBiMissing)) : StructureWith(e[1], e[2])

SpecBiMissing == InitBi /\ [][AnalyzeMissing]_vars

----------------------------------------------------------------------------
(* Properties *)

Count(seq, x) == Cardinality({i \in 1..Len(seq) : seq[i] = x})

AfterFetchStep == pc \in {"rawbars", "signals", "structure", "done"}

\* C1: the provider calls of an invocation occur in the order login, query,
\* logout, each at most once; a query is issued only after a successful login;
\* once login has succeeded, logout has been called by the time the fetch step
\* is over, whether the fetch returned or raised.
C1_SessionOrder ==
    /\ calls \in {<<>>, <<"login">>, <<"login", "query">>, <<"login", "query", "logout">>}
    /\ (Count(calls, "query") > 0 => lg = "ok")
    /\ (AfterFetchStep /\ lg = "ok" => calls = <<"login", "query", "logout">>)

C1_Witness ==
    /\ pc = "done"
    /\ fetched.kind = "raise"
    /\ result.kind = "raise"
    /\ calls = <<"login", "query", "logout">>

\* C2 as stated: on every exit path of an invocation that attempted login,
\* logout has been called before the call returns or raises, and no login or
\* query is retried.
C2_LogoutOnEveryExit ==
    /\ (pc = "done" /\ Count(calls, "login") > 0 => Count(calls, "logout") > 0)
    /\ Count(calls, "login") <= 1
    /\ Count(calls, "query") <= 1

\* C2 amended: on every exit path of an invocation whose login succeeded
\* (success, query reporting non-success, exception in the fetch) logout has
\* been called before the call returns or raises; when login reports
\* non-success or raises, the call raises with login as its only provider
\* call; no login or query is retried.
C2_LogoutAfterSuccessfulLogin ==
    /\ (pc = "done" /\ lg = "ok" => Count(calls, "logout") = 1 /\ lo # "none")
    /\ (pc = "done" /\ lg \in {"fail", "exc"} => calls = <<"login">> /\ result.kind = "raise")
    /\ Count(calls, "login") <= 1
    /\ Count(calls, "query") <= 1

C2_Witness ==
    /\ pc = "done"
    /\ lg = "ok"
    /\ fetched.err = "QueryFailed"
    /\ result = Raise("QueryFailed")
    /\ Count(calls, "logout") = 1

\* C3: whatever logout does, the outcome of the invocation is decided by the
\* fetch: the error the fetch raised is the error raised, the frame the fetch
\* returned is what get_bars_local returns, and a logout error never surfaces.
C3_FetchDecides ==
    /\ result.err # "LogoutError"
    /\ (AfterFetchStep /\ fetched.kind = "raise" => result = Raise(fetched.err))
    /\ (pc \in {"signals", "structure", "done"} /\ fetched.kind = "df" =>
            /\ payload.kind = "return"
            /\ Len(payload.bars) = Len(fetched.df)
            /\ (tool = "bars" => result.kind = "return" /\ result.resp.bars = payload.bars))

C3_Witness ==
    /\ pc = "done"
    /\ lo = "exc"
    /\ fetched.kind = "raise"
    /\ result = Raise("ProviderError")

\* the table of the nine documented labels
LabelCode(f) ==
    CASE f = <<"5", "m">> -> <<"5">>
      [] f = <<"1", "5", "m">> -> <<"1", "5">>
      [] f = <<"3", "0", "m">> -> <<"3", "0">>
      [] f = <<"6", "0", "m">> -> <<"6", "0">>
      [] f = <<"d">> -> <<"d">>
      [] f = <<"w">> -> <<"w">>
      [] f = <<"m">> -> <<"m">>
      [] f = <<"d", "a", "y">> -> <<"d">>
      [] f = <<"d", "a", "i", "l", "y">> -> <<"d">>
      [] OTHER -> <<"?">>

IsLabel(f) == LabelCode(f) # <<"?">>

BareMinuteCodes == {<<"5">>, <<"1", "5">>, <<"3", "0">>, <<"6", "0">>}

\* C4 as stated: exactly the nine labels are mapped, to their codes; every
\* other string raises the unsupported-frequency error.
C4_OnlyNineLabels ==
    pc # "map" =>
        IF IsLabel(freq)
        THEN pc = "login" /\ bo_freq = LabelCode(freq)
        ELSE pc = "done" /\ result = Raise("ValueError")

\* C4 amended: the input is lower-cased first; the nine labels map to their
\* codes, the bare provider codes 5, 15, 30, 60 are returned unchanged, and
\* every other string raises the unsupported-frequency error.
C4_LabelsAndBareCodes ==
    pc # "map" =>
        LET f == Lower(freq)
        IN  IF IsLabel(f) THEN pc = "login" /\ bo_freq = LabelCode(f)
            ELSE IF f \in BareMinuteCodes THEN pc = "login" /\ bo_freq = f
            ELSE pc = "done" /\ result = Raise("ValueError")

C4_Witness ==
    /\ pc = "login"
    /\ freq = <<"1", "5">>
    /\ bo_freq = <<"1", "5">>

Stamps(rows) == {rows[i].stamp : i \in 1..Len(rows)}
StampSeq(rows) == [i \in 1..Len(rows) |-> rows[i].stamp]
Dts(bars) == [i \in 1..Len(bars) |-> bars[i].dt]

\* C5 as stated: the bars returned are strictly ascending by dt, so no two
\* share a dt, and none has an unparsed dt.
C5_StrictlyAscending ==
    payload.kind = "return" =>
        /\ \A i \in 1..Len(payload.bars) : payload.bars[i].dt # IsoFormat(NaT)
        /\ \A i, j \in 1..Len(payload.bars) :
              i < j => payload.bars[i].dt # payload.bars[j].dt
                       /\ IsoLeq(payload.bars[i].dt, payload.bars[j].dt)

\* C5 amended: the bars returned are ascending by dt (not strictly: rows with
\* equal timestamps are all kept) and none has an unparsed dt; every drained
\* row whose timestamp parses yields one bar.
C5_Ascending ==
    payload.kind = "return" =>
        /\ \A i \in 1..Len(payload.bars) : payload.bars[i].dt # IsoFormat(NaT)
        /\ \A i, j \in 1..Len(payload.bars) :
              i < j => IsoLeq(payload.bars[i].dt, payload.bars[j].dt)
        /\ \A c \in Stamps(Drain(prov)) \ {0} :
              Count(Dts(payload.bars), IsoFormat(c)) = Count(StampSeq(Drain(prov)), c)
        /\ Len(payload.bars) = Len(Drain(prov)) - Count(StampSeq(Drain(prov)), 0)

C5_Witness ==
    /\ pc = "done"
    /\ result.kind = "return"
    /\ Len(Drain(prov)) = 3
    /\ Drain(prov)[1].stamp > Drain(prov)[3].stamp
    /\ Drain(prov)[2].stamp = 0
    /\ Len(payload.bars) = 2

\* the direction a label stands for, in either language
DirectionOf(label) ==
    IF label \in UpLabels THEN "up"
    ELSE IF label \in DownLabels THEN "down"
    ELSE "none"

SetMax(S) == CHOOSE m \in S : \A x \in S : x <= m

\* the divergence rule as the specification words it
RefBeichi(bl) ==
    LET R == {i \in 1..Len(bl) : DirectionOf(bl[i].direction) # "none"}
    IN  IF R = {} THEN Null
        ELSE LET l == SetMax(R)
                 P == {j \in R : j < l /\ DirectionOf(bl[j].direction)
                                          = DirectionOf(bl[l].direction)}
             IN  IF P = {} THEN Null
                 ELSE LET q == SetMax(P)
                          last == bl[l]
                          prev == bl[q]
                          shorter == Abs(last.high.v - last.low.v)
                                       < Abs(prev.high.v - prev.low.v)
                          stamps == [last_start |-> IsoFormat(last.start_dt),
                                     last_end |-> IsoFormat(last.end_dt),
                                     prev_start |-> IsoFormat(prev.start_dt),
                                     prev_end |-> IsoFormat(prev.end_dt)]
                      IN  IF DirectionOf(last.direction) = "up"
                             /\ last.high.v <= prev.high.v /\ shorter
                          THEN [type |-> "bearish"] @@ stamps
                          ELSE IF DirectionOf(last.direction) = "down"
                                  /\ last.low.v >= prev.low.v /\ shorter
                          THEN [type |-> "bullish"] @@ stamps
                          ELSE Null

Analyzed == pc = "done" /\ result.kind = "return" /\ engineCalls = <<"CZSC">>

\* C6: for level bi the beichi returned equals the reference rule (last is the
\* most recent stroke with a recognized label, prev the nearest earlier one of
\* the same direction, bearish / bullish by the extreme and length
\* comparisons, null otherwise); for level zs it is null.
C6_BeichiIsReference ==
    Analyzed =>
        result.resp.beichi = IF level = "bi" THEN RefBeichi(bi_list) ELSE Null

OtherLanguage(label) ==
    CASE label = "up" -> "xiangshang"
      [] label = "xiangshang" -> "up"
      [] label = "down" -> "xiangxia"
      [] label = "xiangxia" -> "down"
      [] OTHER -> label

TranslateAt(bl, k) ==
    [i \in 1..Len(bl) |->
        IF i = k THEN [bl[i] EXCEPT !.direction = OtherLanguage(bl[i].direction)]
        ELSE bl[i]]

\* C7: replacing the direction label of any one stroke by the other language's
\* label for the same direction leaves the beichi (type and timestamps of the
\* selected pair, or null) unchanged.
C7_TranslationInvariant ==
    Analyzed /\ level = "bi" =>
        \A k \in 1..Len(bi_list) :
            analyze_structure(TranslateAt(bi_list, k), zs_list, level).beichi
                = result.resp.beichi

\* C8: when the provider's result set is empty, the tool returns after logout
\* with count 0 and no bars (bars), count 0 and no signals (signals), no items
\* and a null beichi (structure), and nothing of the engine has been called,
\* whether or not the engine is available.
C8_EmptyResultSet ==
    pc = "done" /\ fetched.kind = "df" /\ prov.rows = <<>> =>
        /\ result.kind = "return"
        /\ calls = <<"login", "query", "logout">>
        /\ engineCalls = <<>>
        /\ sigOut = NoSig
        /\ CASE tool = "bars" -> result.resp.count = 0 /\ result.resp.bars = <<>>
             [] tool = "signals" -> result.resp.count = 0 /\ result.resp.signals = <<>>
             [] tool = "structure" -> result.resp.items = <<>> /\ result.resp.beichi = Null

C8_Witness ==
    /\ pc = "done"
    /\ tool = "signals"
    /\ ~czsc
    /\ fetched.kind = "df"
    /\ prov.rows = <<>>
    /\ result.kind = "return"
    /\ result.resp.signals = <<>>

StructureFields == {"symbol", "freq", "level", "count", "items", "beichi"}

\* C9: every successful structure response carries symbol, freq, level, count,
\* items and beichi, and count is the number of fetched bars, on the
\* empty-bars path as on the non-empty one.
C9_SixFields ==
    pc = "done" /\ tool = "structure" /\ result.kind = "return" =>
        /\ DOMAIN result.resp = StructureFields
        /\ result.resp.count = Len(payload.bars)

SignalNames(sigs) == [i \in 1..Len(sigs) |-> sigs[i].name]

\* C10: whichever of the two signal functions fail, chan_basic_signals returns;
\* both functions have been attempted, fractal first; the result holds exactly
\* the signals that succeeded, the fractal signal before the power signal.
C10_PerSignalTolerance ==
    pc = "done" /\ tool = "signals" /\ sigOut # NoSig =>
        /\ result.kind = "return"
        /\ engineCalls = <<FxName, PowerName>>
        /\ SignalNames(result.resp.signals)
              = (IF sigOut.fx = "ok" THEN <<FxName>> ELSE <<>>)
                \o (IF sigOut.power = "ok" THEN <<PowerName>> ELSE <<>>)
        /\ result.resp.count = Len(payload.bars)

C10_Witness ==
    /\ pc = "done"
    /\ tool = "signals"
    /\ sigOut = [fx |-> "exc", power |-> "ok"]
    /\ result.kind = "return"
    /\ SignalNames(result.resp.signals) = <<PowerName>>

\* C11: every bar emitted by bars has open, high, low and close as finite
\* numbers, never a not-a-number value, whatever the price cells of the
\* provider's rows hold (numeric string, non-numeric string, empty string).
C11_FinitePrices ==
    pc = "done" /\ tool = "bars" /\ result.kind = "return" =>
        \A i \in 1..Len(result.resp.bars) :
            \A c \in PriceCols : result.resp.bars[i][c].f = "num"

\* a stroke without a high or a low value (attribute absent or None)
LacksExtreme(b) == b.high.tag # "num" \/ b.low.tag # "num"

\* the (last, prev) pair the divergence pass of analyze_structure compares
HasPair(bl) ==
    /\ SameDir(bl) # <<>>
    /\ ScanPrev(SameDir(bl), Len(SameDir(bl)) - 1,
                SameDir(bl)[Len(SameDir(bl))].direction) # 0

LastOf(bl) == SameDir(bl)[Len(SameDir(bl))]

PrevOf(bl) ==
    SameDir(bl)[ScanPrev(SameDir(bl), Len(SameDir(bl)) - 1, LastOf(bl).direction)]

\* C12: whenever last or prev lacks a high or low value, analyze_structure
\* returns (no error) with beichi null, never a classification computed from a
\* substituted default, and with one item per stroke.
C12_MissingExtremeIsNull ==
    pc = "done" /\ tool = "structure" /\ level = "bi" /\ HasPair(bi_list)
      /\ (LacksExtreme(LastOf(bi_list)) \/ LacksExtreme(PrevOf(bi_list))) =>
        /\ result.kind = "return"
        /\ result.resp.beichi = Null
        /\ Len(result.resp.items) = Len(bi_list)

\* rows of a result set whose timestamp parses
Parseable(rows) == Len(rows) - Count(StampSeq(rows), 0)

\* C13: fetch_bars_df drains all rows or fails: the frame it returns holds
\* every row of the result set whose timestamp parses, and when the provider's
\* status turns non-success while rows are drained the call raises the query
\* error instead of returning the rows read so far.
C13_DrainAllOrFail ==
    /\ (fetched.kind = "df" => Len(fetched.df) = Parseable(prov.rows))
    /\ (pc \notin {"idle", "map", "login", "query"} /\ prov.delivered < Len(prov.rows) =>
            fetched = [kind |-> "raise", err |-> "QueryFailed", df |-> <<>>])

====
